---- MODULE Spec2Model ----
(***************************************************************************)
(* Model of src/na.py: a Streamlit script that reads an uploaded table,    *)
(* optionally turns one column into a date index, previews the data and    *)
(* dispatches to zivot_andrews_app or phillips_perron_app, which call the  *)
(* arch.unitroot tests and render the result.                              *)
(*                                                                         *)
(* One behaviour of Spec is a sequence of script runs (Streamlit reruns    *)
(* the script top to bottom on every interaction).  pandas, arch, plotly   *)
(* and streamlit are outside the repository: their calls are actions whose *)
(* outcome is an input, drawn where the script first reads it.             *)
(***************************************************************************)
EXTENDS Integers, Sequences, FiniteSets, TLC

(***************************************************************************)
(* Bounds of the model.                                                    *)
(***************************************************************************)
\* rows of an uploaded table: MinObs - 1 .. MinObs - 1 + MaxExtraRows
MaxExtraRows == 1
\* null cells of a numeric column: 0 .. MaxNulls
MaxNulls == 1
\* series_length handed to get_breakpoint_safe on its own: 1 .. MaxLen
MaxLen == 3
\* candidate attributes a result object carries at once, get_breakpoint_safe on its own
MaxBpAttrs == 2

(***************************************************************************)
(* Program constants.                                                      *)
(***************************************************************************)
\* na.py:134 and na.py:310, "len(series_to_test) < 20"
MinObs == 20
\* na.py:183 and na.py:325, alpha = 0.05, in thousandths
Alpha == 50

None == "None"
\* the first option of the date selectbox, na.py:417 and na.py:421
NoDateIndex == "Tidak menggunakan indeks tanggal"
\* the options of the navigation selectbox, na.py:384-385
NavOptions == {"Uji Zivot-Andrews", "Uji Phillips-Perron"}

(***************************************************************************)
(* Uploaded files.  A name is a stem and an extension; the uploader        *)
(* (type=["csv", "xlsx"]) compares extensions without regard to case, so   *)
(* upper-case extensions are accepted too.  The bytes of a file are in the *)
(* format its extension names.                                             *)
(***************************************************************************)
Lower(ext) ==
    CASE ext = ".CSV" -> ".csv"
      [] ext = ".XLSX" -> ".xlsx"
      [] OTHER -> ext

AcceptedExts == {e \in {".csv", ".CSV", ".xlsx", ".XLSX"} : Lower(e) \in {".csv", ".xlsx"}}

\* str.endswith('.csv'), na.py:401: an exact, case-sensitive comparison
EndsWithCsv(name) == name.ext = ".csv"

(***************************************************************************)
(* Tables.  A column has a name, a dtype, a number of null cells and, for  *)
(* a column pd.to_datetime may be applied to, the outcome of that          *)
(* conversion: "clean" (every cell is a date), "partial" (errors='coerce'  *)
(* turns some cells into NaT) or "raises" (to_datetime raises).            *)
(***************************************************************************)
NumCol(name, nulls) == [name |-> name, dtype |-> "float64", nulls |-> nulls, conv |-> "na"]
ObjCol(conv) == [name |-> "Tanggal", dtype |-> "object", nulls |-> 0, conv |-> conv]
DtCol == [name |-> "Waktu", dtype |-> "datetime64[ns]", nulls |-> 0, conv |-> "clean"]

Convs == {"clean", "partial", "raises"}
NullCounts == 0..MaxNulls
RowCounts == (MinObs - 1)..(MinObs - 1 + MaxExtraRows)

Layouts ==
    {<<NumCol("y", k)>> : k \in NullCounts}
    \cup {<<ObjCol(c)>> : c \in Convs}
    \cup {<<ObjCol(c), NumCol("y", k)>> : c \in Convs, k \in NullCounts}
    \cup {<<DtCol, NumCol("y", k)>> : k \in NullCounts}
    \cup {<<NumCol("x", 0), NumCol("y", k)>> : k \in NullCounts}

RangeIndex == [name |-> None, dtype |-> "int64", hasNaT |-> FALSE]

\* the DataFrame a reader returns: the columns of the file under the default index
Tables == {[columns |-> l, rows |-> r, index |-> RangeIndex] : l \in Layouts, r \in RowCounts}

FileNames == {[stem |-> "data", ext |-> e] : e \in AcceptedExts}
AnyTable == CHOOSE t \in Tables : TRUE
\* a file is its name and its bytes: a table in the format of the extension, or
\* bytes no reader can parse (corrupt)
\* pd.read_csv is called without parse_dates, so a csv file never yields a
\* datetime64 column; a workbook may
TablesOf(name) ==
    IF Lower(name.ext) = ".csv"
    THEN {t \in Tables : \A i \in 1..Len(t.columns) : t.columns[i].dtype # "datetime64[ns]"}
    ELSE Tables
UploadedFiles ==
    UNION {{[name |-> n, corrupt |-> FALSE, content |-> c] : c \in TablesOf(n)} : n \in FileNames}
    \cup {[name |-> n, corrupt |-> TRUE, content |-> AnyTable] : n \in FileNames}

Ok(v) == [raised |-> FALSE, value |-> v]
Raise == [raised |-> TRUE, value |-> None]

\* pd.read_csv: parses csv bytes; anything else raises
read_csv(file) ==
    IF Lower(file.name.ext) = ".csv" /\ ~file.corrupt THEN Ok(file.content) ELSE Raise

\* pd.read_excel: parses a workbook; anything else raises
read_excel(file) ==
    IF Lower(file.name.ext) = ".xlsx" /\ ~file.corrupt THEN Ok(file.content) ELSE Raise

\* na.py:401-404
ReadFile(file) == IF EndsWithCsv(file.name) THEN read_csv(file) ELSE read_excel(file)

\* the reader na.py:401-404 chooses
ReaderOf(file) == IF EndsWithCsv(file.name) THEN "pd.read_csv" ELSE "pd.read_excel"

(***************************************************************************)
(* DataFrame operations.                                                   *)
(***************************************************************************)
SeqToSet(s) == {s[i] : i \in 1..Len(s)}
ColNames(cols) == [i \in 1..Len(cols) |-> cols[i].name]
IsNumber(col) == col.dtype \in {"int64", "float64"}
IsDateLike(col) == col.dtype \in {"datetime64[ns]", "object"}

\* numeric_cols with a slip: every column taken for numeric
numeric_cols_mut(d) == ColNames(d.columns)
\* df.select_dtypes(include=['number']).columns.tolist(), na.py:95 and na.py:275
numeric_cols(d) == ColNames(SelectSeq(d.columns, IsNumber))

\* ColumnOptions with a slip: the selectbox offering every column
ColumnOptions_mut(d) == SeqToSet(ColNames(d.columns))
\* options=numeric_cols of the column selectbox, whose value is one of its
\* options, na.py:100-104 and na.py:280-284
ColumnOptions(d) == SeqToSet(numeric_cols(d))

\* na.py:412
date_cols(d) == ColNames(SelectSeq(d.columns, IsDateLike))

Column(d, name) == CHOOSE c \in SeqToSet(d.columns) : c.name = name

\* pd.to_datetime(df[date_col], errors='coerce'), na.py:423
to_datetime(col) ==
    IF col.conv = "raises" THEN Raise
    ELSE Ok([col EXCEPT !.dtype = "datetime64[ns]"])

\* df[date_col].isna().any() after the conversion, na.py:425
HasNaT(col) == col.conv = "partial" \/ col.nulls > 0

\* set_index with a slip: set_index dropping every column
set_index_mut(d, conv) ==
    [d EXCEPT !.columns = <<>>,
              !.index = [name |-> conv.name, dtype |-> conv.dtype, hasNaT |-> HasNaT(conv)]]
\* df[date_col] = ...; df.set_index(date_col, inplace=True), na.py:423-428
set_index(d, conv) ==
    [d EXCEPT !.columns = SelectSeq(d.columns, LAMBDA c : c.name # conv.name),
              !.index = [name |-> conv.name, dtype |-> conv.dtype, hasNaT |-> HasNaT(conv)]]

\* len(df[selected_column].dropna()), na.py:132 and na.py:308
dropna_len(d, name) == d.rows - Column(d, name).nulls

\* TooFew with a slip: the guard off by one
TooFew_mut(n) == n < MinObs - 1
\* len(series_to_test) < 20, na.py:134 and na.py:310
TooFew(n) == n < MinObs

(***************************************************************************)
(* Attribute values of a result object of arch.unitroot.  A number is kept *)
(* as twice its value (x2), so that halves (19.5) are representable;       *)
(* k is the Python type: "int", "float", "str" (any non-number), or        *)
(* "absent" when the object has no such attribute.                         *)
(***************************************************************************)
Absent == [k |-> "absent", x2 |-> 0]
Str == [k |-> "str", x2 |-> 0]
IntV(i) == [k |-> "int", x2 |-> 2 * i]
FloatV(h) == [k |-> "float", x2 |-> h]

\* hasattr(obj, attr)
hasattr(v) == v.k # "absent"
\* isinstance(v, (int, float))
IsNumberValue(v) == v.k \in {"int", "float"}
\* int(v): truncation toward zero
int(v) == IF v.x2 >= 0 THEN v.x2 \div 2 ELSE -((-v.x2) \div 2)

\* na.py:45-48
breakpoint_candidates ==
    <<"breakpoint", "brk", "_breakpoint", "_brk", "break_point", "structural_break", "tb">>

\* values of a candidate attribute: -0.5, 0, 0.5, 1.5, 2, MinObs - 0.5, MinObs, a non-number
BpVals ==
    {FloatV(-1), IntV(0), FloatV(1), FloatV(3), IntV(2), FloatV(2 * MinObs - 1), IntV(MinObs), Str}

\* the result objects that carry at most k of the candidate attributes
BpObjects(k) ==
    LET Names == SeqToSet(breakpoint_candidates)
    IN  UNION {{[a \in Names |-> IF a \in S THEN f[a] ELSE Absent] : f \in [S -> BpVals]} :
               S \in {T \in SUBSET Names : Cardinality(T) <= k}}

IntResult(i) == [isNone |-> FALSE, v |-> i]
NoneResult == [isNone |-> TRUE, v |-> 0]

\* InRange with a slip: the upper end of the range included
InRange_mut(v, series_length) == 0 <= v.x2 /\ v.x2 <= 2 * series_length
\* "0 <= bp < series_length", na.py:54
InRange(v, series_length) == 0 <= v.x2 /\ v.x2 < 2 * series_length

\* the for loop of get_breakpoint_safe from candidate i on, na.py:50-60
RECURSIVE bp_loop(_, _, _)
bp_loop(za_bp, series_length, i) ==
    IF i > Len(breakpoint_candidates)
    THEN IntResult(series_length \div 2)
    ELSE LET bp == za_bp[breakpoint_candidates[i]]
         IN  IF hasattr(bp) /\ IsNumberValue(bp) /\ InRange(bp, series_length)
             THEN IntResult(int(bp))
             ELSE bp_loop(za_bp, series_length, i + 1)

\* na.py:43-60
get_breakpoint_safe(za_bp, series_length) == bp_loop(za_bp, series_length, 1)

\* na.py:154-165: the call, the error branch, the clamp and the position read
\* from series_to_test.index
ZA_BreakpointBlock(za_bp, n) ==
    LET r == get_breakpoint_safe(za_bp, n)
        error_branch == r.isNone \/ r.v >= n
        clamped == ~error_branch /\ r.v >= n
        bi == IF clamped THEN n - 1 ELSE r.v
    IN  [break_index |-> r, error_branch |-> error_branch, clamped |-> clamped,
         position |-> bi]

(***************************************************************************)
(* Critical values.  A dict is its items, a function from the labels it    *)
(* holds to values; k is "dict", "none" (None), "str" (a truthy object     *)
(* that is no dict) or "absent".                                           *)
(***************************************************************************)
Labels == <<"1%", "5%", "10%">>
NoItems == [l \in {} |-> Absent]
Dict(items) == [k |-> "dict", items |-> items]
NoneCV == [k |-> "none", items |-> NoItems]
AbsentCV == [k |-> "absent", items |-> NoItems]
StrCV == [k |-> "str", items |-> NoItems]

CvScalars == {"cv_1", "cv_5", "cv_10", "cv1", "cv5", "cv10"}
\* the number an attribute holds when it holds one: one per attribute
NumOf(a) ==
    CASE a = "cv_1" -> FloatV(-11) [] a = "cv_5" -> FloatV(-9) [] a = "cv_10" -> FloatV(-7)
      [] a = "cv1" -> FloatV(-12) [] a = "cv5" -> FloatV(-10) [] a = "cv10" -> FloatV(-8)
      [] OTHER -> FloatV(-1)
NumDict == Dict([l \in SeqToSet(Labels) |-> IF l = "1%" THEN FloatV(-13) ELSE FloatV(-6)])
StrDict == Dict([l \in SeqToSet(Labels) |-> IF l = "1%" THEN FloatV(-13) ELSE Str])
EmptyDict == Dict(NoItems)

CriticalValuesVals == {AbsentCV, NoneCV, EmptyDict, NumDict, StrDict, StrCV}

\* every result object: each scalar attribute absent, a non-number or a number
CvObjects ==
    {[scal |-> f, critical_values |-> c] :
        f \in UNION {[CvScalars -> {Absent, Str, FloatV(0)}]}, c \in CriticalValuesVals}

\* the value object o gives for scalar attribute a
Attr(o, a) == IF o.scal[a].k = "float" THEN NumOf(a) ELSE o.scal[a]

\* bool(cv)
Truthy(cv) == (cv.k = "dict" /\ DOMAIN cv.items # {}) \/ cv.k = "str"

\* {'1%': a1, '5%': a5, '10%': a10}: raises AttributeError when one is absent
ThreeAttrs(o, a1, a5, a10) ==
    IF \E a \in {a1, a5, a10} : ~hasattr(Attr(o, a)) THEN Raise
    ELSE Ok(Dict([l \in SeqToSet(Labels) |-> IF l = "1%" THEN Attr(o, a1)
                                             ELSE IF l = "5%" THEN Attr(o, a5)
                                             ELSE Attr(o, a10)]))

\* methods with a slip: the first and the third guess exchanged
methods_mut(o, i) ==
    CASE i = 3 -> ThreeAttrs(o, "cv_1", "cv_5", "cv_10")
      [] i = 2 -> IF o.critical_values.k = "absent" THEN Raise ELSE Ok(o.critical_values)
      [] OTHER -> ThreeAttrs(o, "cv1", "cv5", "cv10")
\* the three lambdas, na.py:65-72
methods(o, i) ==
    CASE i = 1 -> ThreeAttrs(o, "cv_1", "cv_5", "cv_10")
      [] i = 2 -> IF o.critical_values.k = "absent" THEN Raise ELSE Ok(o.critical_values)
      [] OTHER -> ThreeAttrs(o, "cv1", "cv5", "cv10")

\* "cv and all(isinstance(v, (int, float)) for v in cv.values())", na.py:77;
\* raised: cv.values() on an object that is no dict
CvAccepted(cv) ==
    IF ~Truthy(cv) THEN Ok(FALSE)
    ELSE IF cv.k # "dict" THEN Raise
    ELSE Ok(\A l \in DOMAIN cv.items : IsNumberValue(cv.items[l]))

\* the for loop of get_critical_values_safe from method i on, na.py:74-82
RECURSIVE cv_loop(_, _)
cv_loop(o, i) ==
    IF i > 3 THEN NoneCV
    ELSE LET m == methods(o, i)
         IN  IF m.raised THEN cv_loop(o, i + 1)
             ELSE LET acc == CvAccepted(m.value)
                  IN  IF ~acc.raised /\ acc.value THEN m.value ELSE cv_loop(o, i + 1)

\* na.py:62-82
get_critical_values_safe(o) == cv_loop(o, 1)

(***************************************************************************)
(* The state of a script run.                                              *)
(***************************************************************************)
VARIABLES
    pc,               \* the statement the run is at
    pilihan_uji,      \* na.py:384, the navigation selectbox
    uploaded_file,    \* na.py:391, the uploader's file, NoFile when there is none
    df,               \* na.py:402/404, the DataFrame of the run
    parsed,           \* history: df as the reader returned it
    date_col,         \* na.py:415, the value of the date selectbox
    selected_column,  \* na.py:100 and na.py:280
    series_to_test,   \* na.py:132 and na.py:308
    za_test,          \* na.py:141, the attributes read from the result so far
    pp_test,          \* na.py:316
    bp,               \* na.py:154-165, break_index and break_date
    crit_values,      \* na.py:191
    log,              \* history: the elements rendered and the library calls made, in order
    failures,         \* history: the failures met in this run
    escaped,          \* an exception left the script
    probe             \* the result object handed to a helper that is run on its own

vars == <<pc, pilihan_uji, uploaded_file, df, parsed, date_col, selected_column,
          series_to_test, za_test, pp_test, bp, crit_values, log, failures, escaped,
          probe>>

NoFile == [name |-> [stem |-> "", ext |-> ""], corrupt |-> FALSE, content |-> AnyTable]
NoDf == [columns |-> <<>>, rows |-> 0, index |-> RangeIndex]
NoSeries == [column |-> None, n |-> 0, index |-> RangeIndex]
Unread == [k |-> "unread", milli |-> 0]
Missing == [k |-> "absent", milli |-> 0]
Raising == [k |-> "raises", milli |-> 0]
Num(m) == [k |-> "float", milli |-> m]
NoTest == [created |-> FALSE, stat |-> Unread, pvalue |-> Unread, lags |-> Unread]
NewTest == [NoTest EXCEPT !.created = TRUE]
NoBp == [break_index |-> NoneResult, error_branch |-> FALSE, clamped |-> FALSE,
         position |-> 0, break_date |-> None, found |-> FALSE]
Unset == [k |-> "unset", items |-> NoItems]
NoBpObject == [a \in SeqToSet(breakpoint_candidates) |-> Absent]
NoCvObject == [scal |-> [a \in CvScalars |-> Absent], critical_values |-> AbsentCV]
NoProbe == [za_bp |-> NoBpObject, za_cv |-> NoCvObject]

\* p-values a test may report, in thousandths: around alpha
PValues == {Alpha - 1, Alpha, Alpha + 1}

\* statistics a test may report, in thousandths: one below every critical
\* value of the result objects, one above them all
StatValues == {Num(-7000), Num(0)}

\* one entry of the log: a streamlit call and its key or message, or a library call
Ev(op, id) == [op |-> op, id |-> id]

InLog(op, id) == \E i \in 1..Len(log) : log[i] = Ev(op, id)

\* the except clause that encloses a statement: na.py:457 (the script), na.py:260
\* (zivot_andrews_app), na.py:365 (phillips_perron_app); the else branch of
\* "if uploaded_file is not None" stands in no try statement
HandlerOf(step) ==
    CASE step \in {"za_invoke", "za_breakpoint", "za_metrics", "za_conclusion", "za_crit",
                   "za_chart"} -> "za"
      [] step \in {"pp_invoke", "pp_metrics", "pp_conclusion", "pp_crit", "pp_chart"} -> "pp"
      [] step \in {"read", "date", "preview", "dispatch", "za_setup", "za_button",
                   "pp_setup", "pp_button"} -> "script"
      [] OTHER -> "none"

\* what the except clause renders: na.py:261-262, na.py:366-367, na.py:458-459
ExceptEvents(handler) ==
    CASE handler = "za" -> <<Ev("st.error", "za_failed"), Ev("st.exception", "za")>>
      [] handler = "pp" -> <<Ev("st.error", "pp_failed"), Ev("st.exception", "pp")>>
      [] handler = "script" -> <<Ev("st.error", "file_failed"), Ev("st.exception", "script")>>
      [] OTHER -> <<>>

\* an exception raised at statement `step` after `before` was rendered: the
\* enclosing except clause renders the error and the run ends; with no
\* enclosing clause the exception leaves the script
Raised(step, before, fails) ==
    /\ log' = log \o before \o ExceptEvents(HandlerOf(step))
    /\ failures' = failures \cup fails
    /\ escaped' = (HandlerOf(step) = "none")
    /\ pc' = "done"

\* the statement renders `events` and the run goes on at `next`
Goes(events, fails, next) ==
    /\ log' = log \o events
    /\ failures' = failures \cup fails
    /\ escaped' = escaped
    /\ pc' = next

(***************************************************************************)
(* The script, na.py:374-471.                                              *)
(***************************************************************************)
\* na.py:374-395: a run starts with the navigation choice and the uploader's file
StartRun(nav, file) ==
    /\ pc = "upload_check"
    /\ pilihan_uji = nav
    /\ uploaded_file = file
    /\ df = NoDf
    /\ parsed = NoDf
    /\ date_col = None
    /\ selected_column = None
    /\ series_to_test = NoSeries
    /\ za_test = NoTest
    /\ pp_test = NoTest
    /\ bp = NoBp
    /\ crit_values = Unset
    /\ log = <<Ev("st.sidebar.selectbox", "pilihan_uji"), Ev("st.sidebar.file_uploader", "upload")>>
    /\ failures = {}
    /\ escaped = FALSE
    /\ probe = NoProbe

Init == \E nav \in NavOptions, file \in UploadedFiles \cup {NoFile} : StartRun(nav, file)

\* na.py:398 and na.py:460-471: without a file the script shows the sample
\* table; pd.date_range(..., freq='M') raises in a pandas that no longer
\* knows the alias 'M'
NoFileBranch ==
    /\ pc = "upload_check"
    /\ uploaded_file = NoFile
    /\ \E raises \in BOOLEAN :
        IF raises
        THEN Raised("no_file", <<Ev("st.info", "upload_prompt"), Ev("st.subheader", "format")>>, {})
        ELSE Goes(<<Ev("st.info", "upload_prompt"), Ev("st.subheader", "format"),
                    Ev("st.dataframe", "sample_data"), Ev("st.caption", "sample")>>, {}, "done")
    /\ UNCHANGED <<probe, pilihan_uji, uploaded_file, df, parsed, date_col, selected_column,
                   series_to_test, za_test, pp_test, bp, crit_values>>

\* na.py:398-409
ReadUpload ==
    /\ pc = "upload_check"
    /\ uploaded_file # NoFile
    /\ LET r == ReadFile(uploaded_file)
           call == <<Ev("call", ReaderOf(uploaded_file))>>
       IN  IF r.raised
           THEN /\ Raised("read", call, {"parse"})
                /\ UNCHANGED <<df, parsed>>
           ELSE /\ df' = r.value
                /\ parsed' = r.value
                /\ Goes(call \o <<Ev("st.success", "uploaded"), Ev("st.info", "shape")>>, {}, "date")
    /\ UNCHANGED <<probe, pilihan_uji, uploaded_file, date_col, selected_column,
                   series_to_test, za_test, pp_test, bp, crit_values>>

\* na.py:411-433
DateIndexStep ==
    /\ pc = "date"
    /\ IF date_cols(df) = <<>>
       THEN /\ Goes(<<Ev("st.sidebar.info", "no_date_col")>>, {}, "preview")
            /\ UNCHANGED <<df, date_col>>
       ELSE \E choice \in {NoDateIndex} \cup SeqToSet(date_cols(df)) :
            /\ date_col' = choice
            /\ IF choice = NoDateIndex
               THEN /\ Goes(<<Ev("st.sidebar.selectbox", "date_col")>>, {}, "preview")
                    /\ UNCHANGED df
               ELSE LET conv == to_datetime(Column(df, choice))
                    IN  IF conv.raised
                        THEN /\ Goes(<<Ev("st.sidebar.selectbox", "date_col"),
                                       Ev("call", "pd.to_datetime"),
                                       Ev("st.sidebar.error", "date_failed")>>,
                                     {"date_conversion"}, "preview")
                             /\ UNCHANGED df
                        ELSE /\ df' = set_index(df, conv.value)
                             /\ Goes(<<Ev("st.sidebar.selectbox", "date_col"),
                                       Ev("call", "pd.to_datetime")>>
                                     \o (IF HasNaT(conv.value)
                                         THEN <<Ev("st.sidebar.warning", "date_coerced")>>
                                         ELSE <<>>)
                                     \o <<Ev("st.sidebar.success", "date_index")>>,
                                     IF HasNaT(conv.value) THEN {"date_coerced"} ELSE {},
                                     "preview")
    /\ UNCHANGED <<probe, pilihan_uji, uploaded_file, parsed, selected_column,
                   series_to_test, za_test, pp_test, bp, crit_values>>

\* na.py:435-449
Preview ==
    /\ pc = "preview"
    /\ Goes(<<Ev("st.subheader", "preview"), Ev("st.dataframe", "df.head"),
              Ev("st.dataframe", "info_df")>>, {}, "dispatch")
    /\ UNCHANGED <<probe, pilihan_uji, uploaded_file, df, parsed, date_col, selected_column,
                   series_to_test, za_test, pp_test, bp, crit_values>>

\* DispatchTarget with a slip: the two presentation functions exchanged
DispatchTarget_mut(choice) ==
    IF choice = "Uji Zivot-Andrews" THEN "pp_setup"
    ELSE IF choice = "Uji Phillips-Perron" THEN "za_setup"
    ELSE "done"
\* na.py:452-455: the presentation function the navigation choice names
DispatchTarget(choice) ==
    IF choice = "Uji Zivot-Andrews" THEN "za_setup"
    ELSE IF choice = "Uji Phillips-Perron" THEN "pp_setup"
    ELSE "done"

Dispatch ==
    /\ pc = "dispatch"
    /\ Goes(IF DispatchTarget(pilihan_uji) = "za_setup" THEN <<Ev("call", "zivot_andrews_app")>>
            ELSE IF DispatchTarget(pilihan_uji) = "pp_setup" THEN <<Ev("call", "phillips_perron_app")>>
            ELSE <<>>, {}, DispatchTarget(pilihan_uji))
    /\ UNCHANGED <<probe, pilihan_uji, uploaded_file, df, parsed, date_col, selected_column,
                   series_to_test, za_test, pp_test, bp, crit_values>>

(***************************************************************************)
(* zivot_andrews_app, na.py:87-262.                                        *)
(***************************************************************************)
\* na.py:88-128: the header, the numeric columns, the four widgets
ZA_Setup ==
    /\ pc = "za_setup"
    /\ LET head == <<Ev("st.header", "za"), Ev("st.sidebar.subheader", "za")>>
       IN  IF numeric_cols(df) = <<>>
           THEN /\ Goes(head \o <<Ev("st.error", "no_numeric")>>, {"no_numeric"}, "done")
                /\ UNCHANGED selected_column
           ELSE \E choice \in ColumnOptions(df) :
                /\ selected_column' = choice
                /\ Goes(head \o <<Ev("st.sidebar.selectbox", "za_column"),
                                  Ev("st.sidebar.selectbox", "za_model"),
                                  Ev("st.sidebar.selectbox", "za_lag_method"),
                                  Ev("st.sidebar.number_input", "za_max_lags")>>, {}, "za_button")
    /\ UNCHANGED <<probe, pilihan_uji, uploaded_file, df, parsed, date_col,
                   series_to_test, za_test, pp_test, bp, crit_values>>

\* na.py:131-136: the run button and the sample-size guard
ZA_Button ==
    /\ pc = "za_button"
    /\ \E pressed \in BOOLEAN :
        IF ~pressed
        THEN /\ Goes(<<Ev("st.sidebar.button", "za_run")>>, {}, "done")
             /\ UNCHANGED series_to_test
        ELSE LET n == dropna_len(df, selected_column)
                 clicked == <<Ev("st.sidebar.button", "za_run"), Ev("pressed", "za_run")>>
             IN  /\ series_to_test' = [column |-> selected_column, n |-> n, index |-> df.index]
                 /\ IF TooFew(n)
                    THEN Goes(clicked \o <<Ev("st.warning", "too_few")>>, {"too_few"}, "done")
                    ELSE Goes(clicked, {}, "za_invoke")
    /\ UNCHANGED <<probe, pilihan_uji, uploaded_file, df, parsed, date_col, selected_column,
                   za_test, pp_test, bp, crit_values>>

\* na.py:138-150: the call of ZivotAndrews; the debug checkbox is created in
\* this very run and so holds its default, False
ZA_Invoke ==
    /\ pc = "za_invoke"
    /\ \E raises \in BOOLEAN :
        IF raises
        THEN /\ Raised(pc, <<Ev("call", "ZivotAndrews")>>, {"test_exception"})
             /\ UNCHANGED za_test
        ELSE /\ za_test' = NewTest
             /\ Goes(<<Ev("call", "ZivotAndrews"), Ev("st.sidebar.checkbox", "debug_za")>>,
                     {}, "za_breakpoint")
    /\ UNCHANGED <<probe, pilihan_uji, uploaded_file, df, parsed, date_col, selected_column,
                   series_to_test, pp_test, bp, crit_values>>

\* some candidate attribute of the result holds a usable breakpoint
BpFound(za_bp, n) ==
    \E i \in 1..Len(breakpoint_candidates) :
        LET v == za_bp[breakpoint_candidates[i]]
        IN  hasattr(v) /\ IsNumberValue(v) /\ InRange(v, n)

\* series_to_test.index[break_index], na.py:165: a row label, a Timestamp, or
\* NaT where the date column had a cell that is no date
BreakDates(index) ==
    IF index.name = None THEN {"int"}
    ELSE IF index.hasNaT THEN {"Timestamp", "NaT"}
    ELSE {"Timestamp"}

\* na.py:154-165
ZA_Breakpoint ==
    /\ pc = "za_breakpoint"
    /\ \E za_bp \in BpObjects(1), date \in BreakDates(series_to_test.index) :
        LET b == ZA_BreakpointBlock(za_bp, series_to_test.n)
            found == BpFound(za_bp, series_to_test.n)
            fails == IF found THEN {} ELSE {"breakpoint_missing"}
        IN  /\ bp' = [break_index |-> b.break_index, error_branch |-> b.error_branch,
                      clamped |-> b.clamped, position |-> b.position,
                      break_date |-> date, found |-> found]
            /\ IF b.error_branch
               THEN Goes(<<Ev("st.error", "no_breakpoint")>>, fails, "done")
               ELSE Goes(<<>>, fails, "za_metrics")
    /\ UNCHANGED <<probe, pilihan_uji, uploaded_file, df, parsed, date_col, selected_column,
                   series_to_test, za_test, pp_test, crit_values>>

\* na.py:167-180: the three metrics; za_test.stat and za_test.pvalue are read
\* here, and break_date.date() raises for NaT
ZA_Metrics ==
    /\ pc = "za_metrics"
    /\ \E stat \in {Missing, Raising} \cup StatValues, pvalue \in {Missing} \cup {Num(p) : p \in PValues} :
        LET head == <<Ev("st.subheader", "result")>>
        IN  IF stat.k # "float"
            THEN /\ za_test' = [za_test EXCEPT !.stat = stat]
                 /\ Raised(pc, head, IF stat = Missing THEN {"stat_missing"} ELSE {"test_exception"})
            ELSE IF pvalue.k # "float"
            THEN /\ za_test' = [za_test EXCEPT !.stat = stat, !.pvalue = pvalue]
                 /\ Raised(pc, head \o <<Ev("st.metric", "stat")>>, {"pvalue_missing"})
            ELSE /\ za_test' = [za_test EXCEPT !.stat = stat, !.pvalue = pvalue]
                 /\ IF bp.break_date = "NaT"
                    THEN Raised(pc, head \o <<Ev("st.metric", "stat"), Ev("st.metric", "pvalue")>>,
                                {"break_date_nat"})
                    ELSE Goes(head \o <<Ev("st.metric", "stat"), Ev("st.metric", "pvalue"),
                                        Ev("st.metric", "break_date")>>, {}, "za_conclusion")
    /\ UNCHANGED <<probe, pilihan_uji, uploaded_file, df, parsed, date_col, selected_column,
                   series_to_test, pp_test, bp, crit_values>>

\* Rejects with a slip: the level itself counted as a rejection
Rejects_mut(pvalue) == pvalue.milli <= Alpha
\* "pvalue < alpha", na.py:184 and na.py:326
Rejects(pvalue) == pvalue.milli < Alpha

\* na.py:182-187 and na.py:324-329
ConclusionEvents(pvalue) ==
    <<Ev("st.subheader", "conclusion"),
      IF Rejects(pvalue) THEN Ev("st.success", "reject_h0") ELSE Ev("st.warning", "fail_to_reject_h0")>>

\* na.py:182-187
ZA_Conclusion ==
    /\ pc = "za_conclusion"
    /\ Goes(ConclusionEvents(za_test.pvalue), {}, "za_crit")
    /\ UNCHANGED <<probe, pilihan_uji, uploaded_file, df, parsed, date_col, selected_column,
                   series_to_test, za_test, pp_test, bp, crit_values>>

\* result objects whose three attributes of a naming scheme are of one kind
AppCvObjects ==
    {o \in CvObjects :
        /\ o.scal["cv_1"] = o.scal["cv_5"] /\ o.scal["cv_5"] = o.scal["cv_10"]
        /\ o.scal["cv1"] = o.scal["cv5"] /\ o.scal["cv5"] = o.scal["cv10"]}

\* ZA_CritEvents with a slip: the warning left out
ZA_CritEvents_mut(cv) ==
    IF Truthy(cv) THEN <<Ev("st.table", "crit_values")>> ELSE <<>>
\* what follows get_critical_values_safe, na.py:193-202
ZA_CritEvents(cv) ==
    IF Truthy(cv) THEN <<Ev("st.table", "crit_values")>> ELSE <<Ev("st.warning", "no_crit_values")>>

\* na.py:189-204: the critical values and the lag caption
ZA_CritValues ==
    /\ pc = "za_crit"
    /\ \E o \in AppCvObjects, lags \in {Missing, Num(1000)} :
        LET cv == get_critical_values_safe(o)
        IN  /\ crit_values' = cv
            /\ za_test' = [za_test EXCEPT !.lags = lags]
            /\ Goes(<<Ev("st.subheader", "crit_values")>> \o ZA_CritEvents(cv)
                    \o <<Ev("st.caption", "lags")>>,
                    IF Truthy(cv) THEN {} ELSE {"critical_values_missing"}, "za_chart")
    /\ UNCHANGED <<probe, pilihan_uji, uploaded_file, df, parsed, date_col, selected_column,
                   series_to_test, pp_test, bp>>

\* na.py:206-258: the line chart with the breakpoint marker
ZA_Chart ==
    /\ pc = "za_chart"
    /\ Goes(<<Ev("st.header", "chart"), Ev("fig.add_shape", "breakpoint"),
              Ev("fig.add_annotation", "breakpoint"), Ev("st.plotly_chart", "series")>>, {}, "done")
    /\ UNCHANGED <<probe, pilihan_uji, uploaded_file, df, parsed, date_col, selected_column,
                   series_to_test, za_test, pp_test, bp, crit_values>>

(***************************************************************************)
(* phillips_perron_app, na.py:267-367.                                     *)
(***************************************************************************)
\* na.py:268-304
PP_Setup ==
    /\ pc = "pp_setup"
    /\ LET head == <<Ev("st.header", "pp"), Ev("st.sidebar.subheader", "pp")>>
       IN  IF numeric_cols(df) = <<>>
           THEN /\ Goes(head \o <<Ev("st.error", "no_numeric")>>, {"no_numeric"}, "done")
                /\ UNCHANGED selected_column
           ELSE \E choice \in ColumnOptions(df) :
                /\ selected_column' = choice
                /\ Goes(head \o <<Ev("st.sidebar.selectbox", "pp_column"),
                                  Ev("st.sidebar.selectbox", "pp_trend"),
                                  Ev("st.sidebar.number_input", "pp_lags")>>, {}, "pp_button")
    /\ UNCHANGED <<probe, pilihan_uji, uploaded_file, df, parsed, date_col,
                   series_to_test, za_test, pp_test, bp, crit_values>>

\* na.py:307-312
PP_Button ==
    /\ pc = "pp_button"
    /\ \E pressed \in BOOLEAN :
        IF ~pressed
        THEN /\ Goes(<<Ev("st.sidebar.button", "pp_run")>>, {}, "done")
             /\ UNCHANGED series_to_test
        ELSE LET n == dropna_len(df, selected_column)
                 clicked == <<Ev("st.sidebar.button", "pp_run"), Ev("pressed", "pp_run")>>
             IN  /\ series_to_test' = [column |-> selected_column, n |-> n, index |-> df.index]
                 /\ IF TooFew(n)
                    THEN Goes(clicked \o <<Ev("st.warning", "too_few")>>, {"too_few"}, "done")
                    ELSE Goes(clicked, {}, "pp_invoke")
    /\ UNCHANGED <<probe, pilihan_uji, uploaded_file, df, parsed, date_col, selected_column,
                   za_test, pp_test, bp, crit_values>>

\* na.py:314-316
PP_Invoke ==
    /\ pc = "pp_invoke"
    /\ \E raises \in BOOLEAN :
        IF raises
        THEN /\ Raised(pc, <<Ev("call", "PhillipsPerron")>>, {"test_exception"})
             /\ UNCHANGED pp_test
        ELSE /\ pp_test' = NewTest
             /\ Goes(<<Ev("call", "PhillipsPerron")>>, {}, "pp_metrics")
    /\ UNCHANGED <<probe, pilihan_uji, uploaded_file, df, parsed, date_col, selected_column,
                   series_to_test, za_test, bp, crit_values>>

\* na.py:318-322: getattr(pp_test, 'lags', 'N/A') has a default
PP_Metrics ==
    /\ pc = "pp_metrics"
    /\ \E stat \in {Missing, Raising} \cup StatValues, pvalue \in {Missing} \cup {Num(p) : p \in PValues},
          lags \in {Missing, Num(1000)} :
        LET head == <<Ev("st.subheader", "result")>>
        IN  IF stat.k # "float"
            THEN /\ pp_test' = [pp_test EXCEPT !.stat = stat]
                 /\ Raised(pc, head, IF stat = Missing THEN {"stat_missing"} ELSE {"test_exception"})
            ELSE IF pvalue.k # "float"
            THEN /\ pp_test' = [pp_test EXCEPT !.stat = stat, !.pvalue = pvalue]
                 /\ Raised(pc, head \o <<Ev("st.metric", "stat")>>, {"pvalue_missing"})
            ELSE /\ pp_test' = [pp_test EXCEPT !.stat = stat, !.pvalue = pvalue, !.lags = lags]
                 /\ Goes(head \o <<Ev("st.metric", "stat"), Ev("st.metric", "pvalue"),
                                   Ev("st.metric", "lags")>>, {}, "pp_conclusion")
    /\ UNCHANGED <<probe, pilihan_uji, uploaded_file, df, parsed, date_col, selected_column,
                   series_to_test, za_test, bp, crit_values>>

\* na.py:324-329
PP_Conclusion ==
    /\ pc = "pp_conclusion"
    /\ Goes(ConclusionEvents(pp_test.pvalue), {}, "pp_crit")
    /\ UNCHANGED <<probe, pilihan_uji, uploaded_file, df, parsed, date_col, selected_column,
                   series_to_test, za_test, pp_test, bp, crit_values>>

\* pp_test.critical_values raises when read
RaisesCV == [k |-> "raises", items |-> NoItems]

\* na.py:333-345: the try statement around the table of critical values;
\* DataFrame.from_dict raises for a value that is no dict
PP_CritEvents(cv) ==
    IF cv.k = "raises" THEN <<Ev("st.warning", "crit_values_failed")>>
    ELSE IF hasattr(cv) /\ Truthy(cv)
    THEN IF cv.k = "dict" THEN <<Ev("st.table", "crit_values")>>
         ELSE <<Ev("st.warning", "crit_values_failed")>>
    ELSE <<Ev("st.warning", "no_crit_values")>>

\* na.py:331-345
PP_CritValues ==
    /\ pc = "pp_crit"
    /\ \E cv \in CriticalValuesVals \cup {RaisesCV} :
        /\ crit_values' = cv
        /\ Goes(<<Ev("st.subheader", "crit_values")>> \o PP_CritEvents(cv),
                IF PP_CritEvents(cv) = <<Ev("st.table", "crit_values")>> THEN {}
                ELSE {"critical_values_missing"}, "pp_chart")
    /\ UNCHANGED <<probe, pilihan_uji, uploaded_file, df, parsed, date_col, selected_column,
                   series_to_test, za_test, pp_test, bp>>

\* na.py:347-363
PP_Chart ==
    /\ pc = "pp_chart"
    /\ Goes(<<Ev("st.header", "chart"), Ev("st.plotly_chart", "series")>>, {}, "done")
    /\ UNCHANGED <<probe, pilihan_uji, uploaded_file, df, parsed, date_col, selected_column,
                   series_to_test, za_test, pp_test, bp, crit_values>>

\* the next interaction reruns the script from the top; nothing of the run
\* before is kept but the widgets' values
Rerun ==
    /\ pc = "done"
    /\ pc' = "upload_check"
    /\ df' = NoDf
    /\ parsed' = NoDf
    /\ date_col' = None
    /\ selected_column' = None
    /\ series_to_test' = NoSeries
    /\ za_test' = NoTest
    /\ pp_test' = NoTest
    /\ bp' = NoBp
    /\ crit_values' = Unset
    /\ log' = <<Ev("st.sidebar.selectbox", "pilihan_uji"), Ev("st.sidebar.file_uploader", "upload")>>
    /\ failures' = {}
    /\ escaped' = FALSE
    /\ UNCHANGED <<probe, pilihan_uji, uploaded_file>>

\* na.py:384-395: the interaction that caused the rerun may have been another
\* navigation choice, another upload or the removal of the file
Interact ==
    /\ pc = "upload_check"
    /\ \E nav \in NavOptions, file \in UploadedFiles \cup {NoFile} :
        /\ pilihan_uji' = nav
        /\ uploaded_file' = file
    /\ UNCHANGED <<probe, pc, df, parsed, date_col, selected_column, series_to_test, za_test,
                   pp_test, bp, crit_values, log, failures, escaped>>

Next ==
    \/ NoFileBranch \/ ReadUpload \/ DateIndexStep \/ Preview \/ Dispatch
    \/ ZA_Setup \/ ZA_Button \/ ZA_Invoke \/ ZA_Breakpoint \/ ZA_Metrics
    \/ ZA_Conclusion \/ ZA_CritValues \/ ZA_Chart
    \/ PP_Setup \/ PP_Button \/ PP_Invoke \/ PP_Metrics
    \/ PP_Conclusion \/ PP_CritValues \/ PP_Chart
    \/ Rerun \/ Interact

Spec == Init /\ [][Next]_vars

(***************************************************************************)
(* The two helpers on their own: get_breakpoint_safe with the statements   *)
(* of its caller that read its result (na.py:154-165), and                 *)
(* get_critical_values_safe, for every result object of the bounded sets.  *)
(***************************************************************************)
\* the lengths handed to get_breakpoint_safe: the small ones and the
\* smallest length zivot_andrews_app calls it with
SeriesLengths == 1..MaxLen \cup {MinObs}

HelperInit ==
    /\ \/ /\ pc = "helper_bp"
          /\ \E o \in BpObjects(MaxBpAttrs) : probe = [za_bp |-> o, za_cv |-> NoCvObject]
          /\ \E n \in SeriesLengths : series_to_test = [NoSeries EXCEPT !.n = n]
       \/ /\ pc = "helper_cv"
          /\ \E o \in CvObjects : probe = [za_bp |-> NoBpObject, za_cv |-> o]
          /\ series_to_test = NoSeries
    /\ pilihan_uji = "Uji Zivot-Andrews"
    /\ uploaded_file = NoFile
    /\ df = NoDf
    /\ parsed = NoDf
    /\ date_col = None
    /\ selected_column = None
    /\ za_test = NewTest
    /\ pp_test = NoTest
    /\ bp = NoBp
    /\ crit_values = Unset
    /\ log = <<>>
    /\ failures = {}
    /\ escaped = FALSE

\* na.py:154-165 on the probe
Helper_Breakpoint ==
    /\ pc = "helper_bp"
    /\ LET b == ZA_BreakpointBlock(probe.za_bp, series_to_test.n)
       IN  bp' = [break_index |-> b.break_index, error_branch |-> b.error_branch,
                  clamped |-> b.clamped, position |-> b.position,
                  break_date |-> "int", found |-> BpFound(probe.za_bp, series_to_test.n)]
    /\ pc' = "helper_bp_done"
    /\ UNCHANGED <<probe, pilihan_uji, uploaded_file, df, parsed, date_col, selected_column,
                   series_to_test, za_test, pp_test, crit_values, log, failures, escaped>>

\* na.py:191 on the probe
Helper_CritValues ==
    /\ pc = "helper_cv"
    /\ crit_values' = get_critical_values_safe(probe.za_cv)
    /\ pc' = "helper_cv_done"
    /\ UNCHANGED <<probe, pilihan_uji, uploaded_file, df, parsed, date_col, selected_column,
                   series_to_test, za_test, pp_test, bp, log, failures, escaped>>

HelperNext == Helper_Breakpoint \/ Helper_CritValues

HelperSpec == HelperInit /\ [][HelperNext]_vars

(***************************************************************************)
(* The claims.                                                             *)
(***************************************************************************)
TestCalls == {"ZivotAndrews", "PhillipsPerron"}
TestCallAt(i) == log[i].op = "call" /\ log[i].id \in TestCalls
TestInvoked == \E i \in 1..Len(log) : TestCallAt(i)
RunPressed == InLog("pressed", "za_run") \/ InLog("pressed", "pp_run")
\* a metric, a table or a chart of a test result
ResultAt(i) == log[i].op \in {"st.metric", "st.table", "st.plotly_chart"}
\* the configuration widgets of the two test panels
PanelWidgetAt(i) ==
    /\ log[i].op \in {"st.sidebar.selectbox", "st.sidebar.number_input", "st.sidebar.button"}
    /\ log[i].id \in {"za_column", "za_model", "za_lag_method", "za_max_lags", "za_run",
                      "pp_column", "pp_trend", "pp_lags", "pp_run"}
\* a warning or an error on the page or in the sidebar
AlertAt(i) == log[i].op \in {"st.warning", "st.error", "st.sidebar.warning", "st.sidebar.error"}

\* C1: in both presentation functions, when the run button is pressed and the
\* selected column has fewer than 20 non-null observations, no test is
\* invoked, no result metric, table or chart is rendered and the warning is
\* shown; a test is invoked only on a series of at least 20 observations.
C1_SampleSizeGuard ==
    /\ (RunPressed /\ series_to_test.n < 20) =>
          /\ ~TestInvoked
          /\ \A i \in 1..Len(log) : ~ResultAt(i)
          /\ InLog("st.warning", "too_few")
    /\ TestInvoked => (RunPressed /\ series_to_test.n >= 20)

\* C1 witness: the button of the Phillips-Perron panel was pressed on a column
\* of 19 non-null observations and the run ended with the warning.
C1_Witness ==
    /\ pc = "done"
    /\ InLog("pressed", "pp_run")
    /\ series_to_test.n = 19
    /\ InLog("st.warning", "too_few")

\* the dataset has no column of a number dtype
C2_NoNumericColumn == \A i \in 1..Len(df.columns) : df.columns[i].dtype \notin {"int64", "float64"}
C2_Entered == InLog("st.header", "za") \/ InLog("st.header", "pp")

\* C2: when the dataset handed to a presentation function has no numeric
\* column, none of the panel's configuration widgets is created, no test is
\* invoked and the error message is shown, in both presentation functions.
C2_NoNumericNoPanel ==
    (C2_Entered /\ C2_NoNumericColumn) =>
        /\ \A i \in 1..Len(log) : ~PanelWidgetAt(i)
        /\ ~TestInvoked
        /\ InLog("st.error", "no_numeric")

\* C2 witness: zivot_andrews_app was entered with a dataset whose only column
\* is the object column, and the run ended with the error.
C2_Witness ==
    /\ pc = "done"
    /\ InLog("st.header", "za")
    /\ Len(df.columns) = 1
    /\ df.columns[1].dtype = "object"
    /\ InLog("st.error", "no_numeric")

\* C3: in every run with an uploaded file, every failure (parse error, date
\* conversion error, no numeric column, too few observations, a missing
\* attribute of the test result, an exception of the test) ends with a
\* warning or an error on the page; no exception leaves the script and no
\* library call is made twice.
C3_FailuresSurfaced ==
    (pc = "done" /\ uploaded_file # NoFile) =>
        /\ ~escaped
        /\ failures # {} => \E i \in 1..Len(log) : AlertAt(i)
        /\ \A i, j \in 1..Len(log) : (log[i].op = "call" /\ log[i] = log[j]) => i = j

\* C4: in every run in which a test is invoked, the column passed to it is a
\* numeric column of the dataset as it is after the date-index step; the
\* column moved into the index is not selected.
C4_TestedColumnNumeric ==
    /\ selected_column # None =>
          /\ \E i \in 1..Len(df.columns) :
                /\ df.columns[i].name = selected_column
                /\ df.columns[i].dtype \in {"int64", "float64"}
          /\ selected_column # df.index.name
    /\ TestInvoked => series_to_test.column = selected_column

\* C4 witness: a test was invoked on column y of a dataset whose object column
\* was moved into the index.
C4_Witness ==
    /\ TestInvoked
    /\ df.index.name = "Tanggal"
    /\ series_to_test.column = "y"

C5_PastDateStep == pc \notin {"upload_check", "date"} /\ parsed # NoDf
C5_Opted == date_col \notin {None, NoDateIndex}
\* d is p with column `name` converted to dates and moved into the index and
\* every other column as it was
C5_Indexed(d, p, name) ==
    /\ d.rows = p.rows
    /\ d.index.name = name
    /\ d.index.dtype = "datetime64[ns]"
    /\ \E k \in 1..Len(p.columns) :
          /\ p.columns[k].name = name
          /\ Len(d.columns) = Len(p.columns) - 1
          /\ \A i \in 1..Len(d.columns) : d.columns[i] = p.columns[IF i < k THEN i ELSE i + 1]

\* C5 as stated: without a date/object column, or with the option 'Tidak
\* menggunakan indeks tanggal', the dataset given to the preview and to the
\* presentation function is the parsed file; with a column picked, that column
\* and only that column is converted and moved into the index.
C5_AsStated ==
    C5_PastDateStep =>
        IF C5_Opted THEN C5_Indexed(df, parsed, date_col) ELSE df = parsed

\* C5 amended: as stated when pd.to_datetime does not raise; when it raises
\* for the picked column the sidebar error is shown and the dataset stays
\* the parsed file.  In every state of a run the dataset is the parsed file
\* or the parsed file with the picked column as index.
C5_DateIndexOnly ==
    /\ C5_PastDateStep =>
          IF C5_Opted /\ ~InLog("st.sidebar.error", "date_failed")
          THEN C5_Indexed(df, parsed, date_col)
          ELSE df = parsed
    /\ ~C5_PastDateStep => df = parsed
    /\ InLog("st.sidebar.error", "date_failed") => C5_Opted

\* C5 witness: the object column was picked and converted, and the numeric
\* column is still a column of the dataset the presentation function got.
C5_Witness ==
    /\ pc = "done"
    /\ date_col = "Tanggal"
    /\ df.index.name = "Tanggal"
    /\ Len(df.columns) = 1
    /\ df.columns[1].name = "y"
    /\ C2_Entered

\* the places of the log where op(id) was rendered or called
Places(op, id) == {i \in 1..Len(log) : log[i] = Ev(op, id)}
C6_Before(A, B) == \E a \in A, b \in B : a < b
C6_Dispatches == Places("call", "zivot_andrews_app") \cup Places("call", "phillips_perron_app")
C6_DateStep == Places("st.sidebar.info", "no_date_col") \cup Places("st.sidebar.selectbox", "date_col")
C6_ResultAt(i) ==
    \/ ResultAt(i)
    \/ log[i] \in {Ev("st.success", "reject_h0"), Ev("st.warning", "fail_to_reject_h0"),
                   Ev("st.warning", "no_crit_values"), Ev("st.warning", "crit_values_failed")}

\* C6: in every run a test is invoked at most once, and only after the file
\* was parsed, the date-index step was done, the preview was rendered and the
\* run button of the selected test was pressed, in this order; at most one
\* presentation function is dispatched, exactly one once the preview is
\* through, and it is the one the navigation choice names (ZivotAndrews is
\* not invoked under 'Uji Phillips-Perron' nor PhillipsPerron under 'Uji
\* Zivot-Andrews'); results are rendered only after the test was invoked.
C6_LinearFlow ==
    /\ Cardinality({i \in 1..Len(log) : TestCallAt(i)}) <= 1
    /\ \A i \in 1..Len(log) : TestCallAt(i) =>
          LET button == IF log[i].id = "ZivotAndrews" THEN Places("pressed", "za_run")
                        ELSE Places("pressed", "pp_run")
          IN  /\ C6_Before(Places("st.success", "uploaded"), C6_DateStep)
              /\ C6_Before(C6_DateStep, Places("st.dataframe", "df.head"))
              /\ C6_Before(Places("st.dataframe", "df.head"), C6_Dispatches)
              /\ C6_Before(C6_Dispatches, button)
              /\ C6_Before(button, {i})
              /\ log[i].id = (IF pilihan_uji = "Uji Zivot-Andrews" THEN "ZivotAndrews"
                              ELSE "PhillipsPerron")
    /\ Cardinality(C6_Dispatches) <= 1
    /\ (pc \notin {"upload_check", "date", "preview", "dispatch"} /\ InLog("st.dataframe", "df.head"))
          => Cardinality(C6_Dispatches) = 1
    /\ InLog("call", "zivot_andrews_app") => pilihan_uji = "Uji Zivot-Andrews"
    /\ InLog("call", "phillips_perron_app") => pilihan_uji = "Uji Phillips-Perron"
    /\ \A i \in 1..Len(log) : C6_ResultAt(i) => \E j \in 1..(i - 1) : TestCallAt(j)

\* C6 witness: under 'Uji Phillips-Perron' a run invoked PhillipsPerron and
\* ended with the chart.
C6_Witness ==
    /\ pc = "done"
    /\ pilihan_uji = "Uji Phillips-Perron"
    /\ InLog("call", "PhillipsPerron")
    /\ InLog("st.plotly_chart", "series")

C7_Warned == InLog("st.warning", "no_crit_values") \/ InLog("st.warning", "crit_values_failed")
C7_RestRendered ==
    /\ InLog("st.metric", "stat")
    /\ InLog("st.metric", "pvalue")
    /\ InLog("st.success", "reject_h0") \/ InLog("st.warning", "fail_to_reject_h0")
    /\ pc = "done" => InLog("st.plotly_chart", "series")
\* phillips_perron_app: critical_values is absent, empty (None, {}) or unusable
\* (no dict, or raising when read)
C7_Unusable(cv) == cv.k \in {"absent", "none", "str", "raises"} \/ (cv.k = "dict" /\ DOMAIN cv.items = {})

\* C7: when get_critical_values_safe returns None in zivot_andrews_app, and
\* when critical_values is absent, empty or unusable in phillips_perron_app, a
\* warning is shown, no table of critical values is rendered, and the
\* statistic, the p-value, the conclusion and the line chart of the run are
\* rendered all the same.
C7_MissingCriticalValues ==
    /\ (InLog("call", "ZivotAndrews") /\ crit_values = NoneCV) =>
          (C7_Warned /\ ~InLog("st.table", "crit_values") /\ C7_RestRendered)
    /\ (InLog("call", "PhillipsPerron") /\ crit_values # Unset /\ C7_Unusable(crit_values)) =>
          (C7_Warned /\ ~InLog("st.table", "crit_values") /\ C7_RestRendered)

\* C7 witness: a run of zivot_andrews_app in which get_critical_values_safe
\* returned None ended with the warning and the chart.
C7_Witness ==
    /\ pc = "done"
    /\ InLog("call", "ZivotAndrews")
    /\ crit_values = NoneCV
    /\ InLog("st.warning", "no_crit_values")
    /\ InLog("st.plotly_chart", "series")

\* C8: every uploaded file is parsed with the reader of its own format, a csv
\* file with pd.read_csv and a workbook with pd.read_excel, whatever the case
\* of the extension.
C8_ReaderOfOwnFormat ==
    \A i \in 1..Len(log) :
        /\ log[i] = Ev("call", "pd.read_csv") => Lower(uploaded_file.name.ext) = ".csv"
        /\ log[i] = Ev("call", "pd.read_excel") => Lower(uploaded_file.name.ext) = ".xlsx"

\* method 1, 2, 3 of get_critical_values_safe does not raise, is not empty and
\* holds numbers only
C9_ThreeNumbers(o, names) == \A a \in names : o.scal[a].k \in {"int", "float"}
C9_DictOfNumbers(cv) ==
    /\ cv.k = "dict"
    /\ DOMAIN cv.items # {}
    /\ \A l \in DOMAIN cv.items : cv.items[l].k \in {"int", "float"}
C9_Triple(v1, v5, v10) ==
    Dict([l \in {"1%", "5%", "10%"} |-> IF l = "1%" THEN v1 ELSE IF l = "5%" THEN v5 ELSE v10])

\* C9: get_critical_values_safe returns the result of the first of (1)
\* cv_1/cv_5/cv_10, (2) critical_values, (3) cv1/cv5/cv10 that does not raise,
\* is not empty and holds numbers only, and None when all three fail.
C9_FirstUsableGuess ==
    pc = "helper_cv_done" =>
        LET o == probe.za_cv
        IN  crit_values =
              (IF C9_ThreeNumbers(o, {"cv_1", "cv_5", "cv_10"})
               THEN C9_Triple(NumOf("cv_1"), NumOf("cv_5"), NumOf("cv_10"))
               ELSE IF C9_DictOfNumbers(o.critical_values) THEN o.critical_values
               ELSE IF C9_ThreeNumbers(o, {"cv1", "cv5", "cv10"})
               THEN C9_Triple(NumOf("cv1"), NumOf("cv5"), NumOf("cv10"))
               ELSE NoneCV)

\* C9 witness: cv_10 is absent and critical_values holds a non-number, so the
\* third guess is the one returned.
C9_Witness ==
    /\ pc = "helper_cv_done"
    /\ probe.za_cv.scal["cv_10"] = Absent
    /\ probe.za_cv.scal["cv_1"].k = "float"
    /\ probe.za_cv.critical_values = StrDict
    /\ crit_values = C9_Triple(NumOf("cv1"), NumOf("cv5"), NumOf("cv10"))

\* v is a number in [0, n)
C10_Usable(v, n) == v.k \in {"int", "float"} /\ 0 <= v.x2 /\ v.x2 < 2 * n

C11_ConclusionAt(i) ==
    log[i] \in {Ev("st.success", "reject_h0"), Ev("st.warning", "fail_to_reject_h0")}
C11_Conclusions == {i \in 1..Len(log) : C11_ConclusionAt(i)}
\* the result object of the test of this run
C11_Test == IF InLog("call", "ZivotAndrews") THEN za_test ELSE pp_test
\* the test of this run completed: the presentation function ran to its last
\* statement, the chart, and no except clause was entered
C11_Completed ==
    /\ pc = "done"
    /\ TestInvoked
    /\ InLog("st.plotly_chart", "series")
    /\ \A i \in 1..Len(log) : log[i].op # "st.exception"

====
